---- MODULE Spec2Model ----
(***************************************************************************)
(* Model of crawler.py: the chapter-catalog crawler of TXT-Novel-Reader.   *)
(*                                                                         *)
(* Text is a sequence of characters.  A character is written as a string:  *)
(* ASCII characters as themselves, the others by their pinyin.             *)
(*   shou ye        首页        deng lu       登录      zhu ce    注册      *)
(*   shang yi ye    上一页      xia yi ye     下一页    fan hui   返回      *)
(*   jia1 ru shu jia4  加入书架  tou piao     投票      liu2 yan  留言      *)
(*   xia zai        下载        geng duo      更多      zhi da    直达      *)
(*   di3 bu         底部        di4           第        zhang hui jie 章回节 *)
(*   cha kan geng duo 查看更多  quan bu zhang jie 全部章节                  *)
(*   wan zheng mu lu  完整目录  dun           、        FW1       １        *)
(*   yi er san si wu liu4 qi ba jiu shi bai qian  一二三四五六七八九十百千    *)
(***************************************************************************)
EXTENDS Integers, Sequences, FiniteSets, TLC

VARIABLES
    \* ---- parse_chapters(start_url): its argument, locals and position
    site,           \* which family of sites the fetches are answered from
    start_url,      \* the argument
    pc,             \* "detect" (line 66), "walk" (line 87), "done" (returned),
                    \* "raised" (left by an exception)
    all_chapters,   \* line 56
    visited_urls,   \* line 57
    urls_to_visit,  \* line 58
    page_count,     \* line 62
    current_url,    \* line 88
    more_link,      \* line 73
    result,         \* the value returned (lines 68, 162)
    \* ---- history of the run, read only by the properties
    log,            \* the fetch_url and time.sleep calls made, in order
    offered,        \* what the page last processed by the walk offered
    more_ref,       \* the full-catalog link the start page carried
    next_ref,       \* the next-page link the page last processed carried
    unbroken,       \* every page fetched by the walk had a fresh next link
    nav_where,      \* where the page last processed had a next-page link:
                    \* "absent"; "inside" or "outside" the container selected;
                    \* on the "page", when no container was selected
    walk_more,      \* the full-catalog link the page last processed carried
    next_first,     \* the href, resolved, of the first anchor with 下一页 of the
                    \* page last processed, whatever that href
    skipped,        \* the walk took the branch of line 90
    observed,       \* nav_where, walk_more and next_first are recorded: they
                    \* are left out where no property reads them, to keep the
                    \* state space of those specifications small
    \* ---- is_chapter_link(text, href) called on its own
    text,           \* the text argument
    ntok,           \* number of pieces the text was composed of
    verdict,        \* "pending", or the boolean returned
    \* ---- the script run from the command line (lines 164-174)
    argv,           \* sys.argv
    main_pc,        \* "none" (not run as a script), "start", "crawl", "exited"
    stdout,         \* the documents printed, in order
    exit_code,      \* the exit status of the process
    calls,          \* number of calls of parse_chapters made by the script
    \* ---- the choice of the container (lines 105-128) made on its own
    soup,           \* the document
    sel_pc,         \* "none", "build" (the document is being written), "selected"
    best_container, \* line 107: index in soup.elems, 0 for None
    max_link_count, \* line 108
    div_scanned,    \* the loop of line 120 was entered
    target_links    \* line 128

crawlVars == <<site, start_url, pc, all_chapters, visited_urls, urls_to_visit,
               page_count, current_url, more_link, result,
               log, offered, more_ref, next_ref, unbroken,
               nav_where, walk_more, next_first, skipped, observed>>
clsVars == <<text, ntok, verdict>>
drvVars == <<argv, main_pc, stdout, exit_code, calls>>
selVars == <<soup, sel_pc, best_container, max_link_count, div_scanned, target_links>>
vars == <<crawlVars, clsVars, drvVars, selVars>>

----------------------------------------------------------------------------
(* Bounds of the model. *)
MaxAnchors == 2     \* anchors on one page
MaxPieces == 3      \* pieces a classified text is composed of
MaxGbkAnchors == 1  \* anchors on a page whose bytes are valid GBK
MaxElems == 2       \* elements with a selector or a div tag on one page

(* Constants of the program. *)
max_pages == 50

----------------------------------------------------------------------------
(* Characters and strings. *)

AsciiDigits == {"0", "1", "2", "3", "4", "5", "6", "7", "8", "9"}
\* \d on a str pattern: every Unicode decimal digit (FW1 stands for the others)
Digits == AsciiDigits \cup {"FW1"}
\* \s on a str pattern, and what str.strip() removes
Whitespace == {" ", "\n", "\t"}
\* [0-9一二三四五六七八九十百千]
MarkerNumerals == AsciiDigits \cup
    {"yi", "er", "san", "si", "wu", "liu4", "qi", "ba", "jiu", "shi", "bai", "qian"}
\* [章回节]
MarkerUnits == {"zhang", "hui", "jie"}
\* [\.\s、]
Separators == {".", "dun"} \cup Whitespace

StartsWith(s, k) == Len(k) <= Len(s) /\ SubSeq(s, 1, Len(k)) = k

\* k in s
RECURSIVE Contains(_, _)
Contains(s, k) ==
    IF Len(s) < Len(k) THEN FALSE
    ELSE IF StartsWith(s, k) THEN TRUE
    ELSE Contains(Tail(s), k)

\* any(k in s for k in keys), from keys[i] on
RECURSIVE AnyIn(_, _, _)
AnyIn(keys, i, s) ==
    IF i > Len(keys) THEN FALSE
    ELSE IF Contains(s, keys[i]) THEN TRUE
    ELSE AnyIn(keys, i + 1, s)

\* s.strip()
RECURSIVE LStrip(_)
LStrip(s) == IF s # <<>> /\ Head(s) \in Whitespace THEN LStrip(Tail(s)) ELSE s
RECURSIVE RStrip(_)
RStrip(s) ==
    IF s # <<>> /\ s[Len(s)] \in Whitespace THEN RStrip(SubSeq(s, 1, Len(s) - 1)) ELSE s
Strip(s) == RStrip(LStrip(s))

\* the index after the longest run of characters of class cls that starts at i
RECURSIVE RunEnd(_, _, _)
RunEnd(s, i, cls) == IF i <= Len(s) /\ s[i] \in cls THEN RunEnd(s, i + 1, cls) ELSE i

----------------------------------------------------------------------------
(* is_chapter_link *)

exclude_keywords ==
    << <<"shou", "ye">>, <<"deng", "lu">>, <<"zhu", "ce">>,
       <<"shang", "yi", "ye">>, <<"xia", "yi", "ye">>, <<"fan", "hui">>,
       <<"jia1", "ru", "shu", "jia4">>, <<"tou", "piao">>, <<"liu2", "yan">>,
       <<"xia", "zai">>, <<"geng", "duo">>, <<"zhi", "da">>, <<"di3", "bu">> >>

\* re.search(r'第[0-9一二三四五六七八九十百千]+[章回节]', s), tried from position i on
RECURSIVE SearchMarker(_, _)
SearchMarker(s, i) ==
    IF i > Len(s) THEN FALSE
    ELSE LET e == RunEnd(s, i + 1, MarkerNumerals)
         IN  IF s[i] = "di4" /\ e > i + 1 /\ e <= Len(s) /\ s[e] \in MarkerUnits
             THEN TRUE
             ELSE SearchMarker(s, i + 1)

\* re.search(r'^\d+[\.\s、]', s)
SearchDigitPrefix(s) ==
    LET e == RunEnd(s, 1, Digits)
    IN  e > 1 /\ e <= Len(s) /\ s[e] \in Separators

\* re.match(r'^\d+$', s): $ matches at the end and before a final newline
MatchAllDigits(s) ==
    LET e == RunEnd(s, 1, Digits)
    IN  e > 1 /\ (e = Len(s) + 1 \/ (e = Len(s) /\ s[e] = "\n"))

\* the marker pattern tried before the exclusion keywords
is_chapter_link_markerFirst(t, href) ==
    IF SearchMarker(t, 1) THEN TRUE
    ELSE IF AnyIn(exclude_keywords, 1, t) THEN FALSE
    ELSE IF SearchDigitPrefix(t) THEN TRUE
    ELSE IF MatchAllDigits(t) THEN TRUE
    ELSE Len(t) > 2

\* len(text) >= 2 for len(text) > 2
is_chapter_link_ge2(t, href) ==
    IF AnyIn(exclude_keywords, 1, t) THEN FALSE
    ELSE IF SearchMarker(t, 1) THEN TRUE
    ELSE IF SearchDigitPrefix(t) THEN TRUE
    ELSE IF MatchAllDigits(t) THEN TRUE
    ELSE Len(t) >= 2

is_chapter_link(t, href) ==
    IF AnyIn(exclude_keywords, 1, t) THEN FALSE
    ELSE IF SearchMarker(t, 1) THEN TRUE
    ELSE IF SearchDigitPrefix(t) THEN TRUE
    ELSE IF MatchAllDigits(t) THEN TRUE
    ELSE Len(t) > 2

----------------------------------------------------------------------------
(* URLs, href attributes and urljoin. *)

Url(d, f) == [scheme |-> "http", dir |-> d, file |-> f]
\* 'javascript:void(0)': urljoin returns it as it is, and no fetch of it succeeds
JsUrl == [scheme |-> "javascript", dir |-> 0, file |-> 0]
\* Python's None, where a URL is expected
NoUrl == [scheme |-> "none", dir |-> 0, file |-> 0]

NoHref == [kind |-> "none", dir |-> 0, file |-> 0]      \* a.get('href') is None
EmptyHref == [kind |-> "empty", dir |-> 0, file |-> 0]  \* href=""
HashHref == [kind |-> "hash", dir |-> 0, file |-> 0]    \* href="#"
JsHref == [kind |-> "js", dir |-> 0, file |-> 0]        \* href="javascript:void(0)"
Abs(d, f) == [kind |-> "abs", dir |-> d, file |-> f]    \* href="http://d/f"
Rel(f) == [kind |-> "rel", dir |-> 0, file |-> f]       \* href="f"

\* href="//[": no URL, urljoin raises ValueError('Invalid IPv6 URL')
BadHref == [kind |-> "bad", dir |-> 0, file |-> 0]
\* no value: urljoin raised
RaisedUrl == [scheme |-> "raised", dir |-> 0, file |-> 0]

\* the truth value of an href: None and '' are false
Truthy(href) == href.kind \notin {"none", "empty"}

urljoin(base, href) ==
    CASE href.kind = "abs" -> Url(href.dir, href.file)
      [] href.kind = "rel" -> [base EXCEPT !.file = href.file]
      [] href.kind = "js" -> JsUrl
      [] href.kind = "bad" -> RaisedUrl
      [] OTHER -> base

----------------------------------------------------------------------------
(* Documents: what BeautifulSoup makes of a page.  The anchors are in      *)
(* document order; the descendant anchors of an element are a contiguous   *)
(* run of them, anchors[first..last].                                      *)

Anchor(t, h) == [text |-> t, href |-> h]
Elem(sels, div, first, last) == [sels |-> sels, div |-> div, first |-> first, last |-> last]
Doc(anchors, elems) == [kind |-> "html", anchors |-> anchors, elems |-> elems]
EmptyText == [kind |-> "empty", anchors |-> <<>>, elems |-> <<>>]   \* ''
NoneHtml == [kind |-> "none", anchors |-> <<>>, elems |-> <<>>]     \* None
NotGbk == [kind |-> "undecodable", anchors |-> <<>>, elems |-> <<>>]
\* no value: the call raised
Raised == [kind |-> "raised", anchors |-> <<>>, elems |-> <<>>]

\* element.find_all('a')
Links(doc, e) == SubSeq(doc.anchors, e.first, e.last)

----------------------------------------------------------------------------
(* fetch_url *)

Response(raises, t, gbk) == [raises |-> raises, text |-> t, gbk |-> gbk]

\* response.text and '' in response.text: the empty string is in every string
Suspicious(t) == t.kind # "empty" /\ TRUE

\* fetch_url without its try/except: the exception leaves fetch_url
fetch_url_noexcept(resp) ==
    IF resp.raises THEN Raised
    ELSE IF Suspicious(resp.text) /\ resp.gbk.kind # "undecodable" THEN resp.gbk
    ELSE resp.text

\* requests.get raises, and the except clause of line 33 returns None
fetch_url(resp) ==
    IF resp.raises THEN NoneHtml
    ELSE IF Suspicious(resp.text) /\ resp.gbk.kind # "undecodable" THEN resp.gbk
    ELSE resp.text

\* html is None for not html: an empty body is taken for a page
Falsy_noneOnly(html) == html.kind = "none"

\* not html
Falsy(html) == html.kind \in {"none", "empty"}

----------------------------------------------------------------------------
(* parse_chapters: the full-catalog link of the start page (lines 73-80). *)

more_phrases ==
    << <<"cha", "kan", "geng", "duo">>, <<"quan", "bu", "zhang", "jie">>,
       <<"wan", "zheng", "mu", "lu">> >>

\* the same search without the test href != '#'
RECURSIVE FindMoreLink_noHash(_, _, _)
FindMoreLink_noHash(anchors, i, start) ==
    IF i > Len(anchors) THEN NoUrl
    ELSE LET a == anchors[i]
             t == Strip(a.text)
         IN  IF /\ \/ Contains(t, more_phrases[1])
                   \/ Contains(t, more_phrases[2])
                   \/ Contains(t, more_phrases[3])
                /\ Truthy(a.href) /\ a.href.kind # "js"
             THEN urljoin(start, a.href)
             ELSE FindMoreLink_noHash(anchors, i + 1, start)

RECURSIVE FindMoreLink(_, _, _)
FindMoreLink(anchors, i, start) ==
    IF i > Len(anchors) THEN NoUrl
    ELSE LET a == anchors[i]
             t == Strip(a.text)
         IN  IF /\ \/ Contains(t, more_phrases[1])
                   \/ Contains(t, more_phrases[2])
                   \/ Contains(t, more_phrases[3])
                /\ Truthy(a.href) /\ a.href.kind # "js" /\ a.href # HashHref
             THEN urljoin(start, a.href)
             ELSE FindMoreLink(anchors, i + 1, start)

----------------------------------------------------------------------------
(* parse_chapters: the container of the chapter list (lines 105-128). *)

selectors == <<"#list", ".list", ".catalog", ".chapter-list", ".book_list",
               ".directory", ".box_con", "#chapterlist">>
MinDivLinks == 20

\* the selectors tried in strict precedence: the first element met is kept
RECURSIVE ScanSelectors_precedence(_, _, _, _)
ScanSelectors_precedence(doc, s, j, best) ==
    IF s > Len(selectors) THEN best
    ELSE IF j > Len(doc.elems) THEN ScanSelectors_precedence(doc, s + 1, 1, best)
    ELSE LET e == doc.elems[j]
             n == Len(Links(doc, e))
         IN  IF selectors[s] \in e.sels /\ n > 0 /\ best[1] = 0
             THEN ScanSelectors_precedence(doc, s, j + 1, <<j, n>>)
             ELSE ScanSelectors_precedence(doc, s, j + 1, best)

\* best = <<index of best_container in doc.elems or 0 for None, max_link_count>>
RECURSIVE ScanSelectors(_, _, _, _)
ScanSelectors(doc, s, j, best) ==
    IF s > Len(selectors) THEN best
    ELSE IF j > Len(doc.elems) THEN ScanSelectors(doc, s + 1, 1, best)
    ELSE LET e == doc.elems[j]
             n == Len(Links(doc, e))
         IN  IF selectors[s] \in e.sels /\ n > best[2]
             THEN ScanSelectors(doc, s, j + 1, <<j, n>>)
             ELSE ScanSelectors(doc, s, j + 1, best)

\* len(links) >= 20 for len(links) > 20
RECURSIVE ScanDivs_ge(_, _, _)
ScanDivs_ge(doc, j, best) ==
    IF j > Len(doc.elems) THEN best
    ELSE LET e == doc.elems[j]
             n == Len(Links(doc, e))
         IN  IF e.div /\ n >= MinDivLinks /\ n > best[2]
             THEN ScanDivs_ge(doc, j + 1, <<j, n>>)
             ELSE ScanDivs_ge(doc, j + 1, best)

RECURSIVE ScanDivs(_, _, _)
ScanDivs(doc, j, best) ==
    IF j > Len(doc.elems) THEN best
    ELSE LET e == doc.elems[j]
             n == Len(Links(doc, e))
         IN  IF e.div /\ n > MinDivLinks /\ n > best[2]
             THEN ScanDivs(doc, j + 1, <<j, n>>)
             ELSE ScanDivs(doc, j + 1, best)

\* line 119: not best_container, after the loop over the selectors
DivScanRuns(doc) == ScanSelectors(doc, 1, 1, <<0, 0>>)[1] = 0

BestContainer(doc) ==
    LET bySel == ScanSelectors(doc, 1, 1, <<0, 0>>)
    IN  IF bySel[1] = 0 THEN ScanDivs(doc, 1, bySel) ELSE bySel

TargetLinks(doc) ==
    LET best == BestContainer(doc)
    IN  IF best[1] # 0 THEN Links(doc, doc.elems[best[1]]) ELSE doc.anchors

----------------------------------------------------------------------------
(* parse_chapters: the chapters of one page (lines 130-144). *)

Chapter(title, url) == [title |-> title, url |-> url]

\* any(c['url'] == u for c in chapters)
HasUrl(chapters, u) == \E i \in 1..Len(chapters) : chapters[i].url = u

\* only the chapters of the earlier pages are looked at
IsDuplicate_allOnly(allc, pagec, u) == HasUrl(allc, u)

\* the test of line 138
IsDuplicate(allc, pagec, u) == HasUrl(allc, u) \/ HasUrl(pagec, u)

\* the test of line 134 without its href
Eligible_noHref(t, href) == t # <<>> /\ is_chapter_link(t, href)

\* lines 134-135: text and href, and is_chapter_link(text, href)
Eligible(t, href) == t # <<>> /\ Truthy(href) /\ is_chapter_link(t, href)

RECURSIVE ExtractChapters(_, _, _, _, _)
ExtractChapters(links, i, base, allc, pagec) ==
    IF i > Len(links) THEN pagec
    ELSE LET t == Strip(links[i].text)
             href == links[i].href
             full_url == urljoin(base, href)
         IN  IF /\ Eligible(t, href)
                /\ ~IsDuplicate(allc, pagec, full_url)
             THEN ExtractChapters(links, i + 1, base, allc,
                                  Append(pagec, Chapter(t, full_url)))
             ELSE ExtractChapters(links, i + 1, base, allc, pagec)

\* line 136 raises: the href of an anchor that passed lines 134-135 is no URL
ExtractRaises(links, base) ==
    \E i \in 1..Len(links) :
        /\ urljoin(base, links[i].href) = RaisedUrl
        /\ Eligible(Strip(links[i].text), links[i].href)

\* the hrefs resolved against the start URL
PageChapters_startBase(links, url, start, allc) ==
    ExtractChapters(links, 1, start, allc, <<>>)

\* the page_chapters made of the target_links of the page fetched from url
PageChapters(links, url, start, allc) ==
    ExtractChapters(links, 1, url, allc, <<>>)

----------------------------------------------------------------------------
(* parse_chapters: the next page (lines 148-154). *)

xia_yi_ye == <<"xia", "yi", "ye">>

\* the loop of line 149 without its break: the last anchor found is kept
RECURSIVE FindNextPage_last(_, _, _)
FindNextPage_last(anchors, i, base) ==
    IF i > Len(anchors) THEN NoUrl
    ELSE LET rest == FindNextPage_last(anchors, i + 1, base)
         IN  IF rest # NoUrl THEN rest
             ELSE IF Contains(anchors[i].text, xia_yi_ye) /\ Truthy(anchors[i].href)
             THEN urljoin(base, anchors[i].href)
             ELSE NoUrl

\* the full-catalog phrases of line 76 looked for on every page as well
RECURSIVE FindNextPage_orMore(_, _, _)
FindNextPage_orMore(anchors, i, base) ==
    IF i > Len(anchors) THEN NoUrl
    ELSE IF /\ \/ Contains(anchors[i].text, xia_yi_ye)
               \/ \E k \in 1..Len(more_phrases) : Contains(anchors[i].text, more_phrases[k])
            /\ Truthy(anchors[i].href)
         THEN urljoin(base, anchors[i].href)
         ELSE FindNextPage_orMore(anchors, i + 1, base)

RECURSIVE FindNextPage(_, _, _)
FindNextPage(anchors, i, base) ==
    IF i > Len(anchors) THEN NoUrl
    ELSE IF Contains(anchors[i].text, xia_yi_ye) /\ Truthy(anchors[i].href)
         THEN urljoin(base, anchors[i].href)
         ELSE FindNextPage(anchors, i + 1, base)

----------------------------------------------------------------------------
(* The sites the crawler is run against: the pages a fetch may return.     *)

T_ch1 == <<"di4", "1", "zhang">>               \* 第1章
T_ch2 == <<" ", "di4", "2", "zhang", " ">>     \* 第2章, with blanks around it
T_next == <<"xia", "yi", "ye">>                \* 下一页
T_more == <<"cha", "kan", "geng", "duo">>      \* 查看更多
T_all == <<"quan", "bu", "zhang", "jie">>      \* 全部章节
T_full == <<"wan", "zheng", "mu", "lu">>       \* 完整目录
T_blank == <<" ">>
Mojibake == <<"?", "?", "?">>

\* site "catalog": a paginated catalog in two directories of two files
CatalogAnchors ==
    { Anchor(T_ch1, Rel(1)), Anchor(T_ch2, Abs(0, 1)),
      Anchor(T_next, Rel(1)), Anchor(T_next, Abs(1, 0)), Anchor(T_next, Rel(0)),
      Anchor(T_next, EmptyHref), Anchor(T_blank, Rel(1)) }

\* site "landing": pages that carry links to the full catalog
LandingAnchors ==
    { Anchor(T_more, Rel(1)), Anchor(T_all, Rel(0)), Anchor(T_full, HashHref),
      Anchor(T_more, JsHref), Anchor(T_more, NoHref),
      Anchor(T_ch1, Rel(1)), Anchor(T_ch2, NoHref), Anchor(T_next, Rel(0)) }

\* site "chain": page n links to page n+1, or back to page 0
ChainAnchors(url) ==
    { Anchor(T_next, Rel(url.file + 1)), Anchor(T_next, Rel(0)),
      Anchor(T_more, Rel(url.file + 1)), Anchor(T_ch1, Abs(0, 0)) }

\* site "broken": pages with hrefs that are no URLs
BrokenAnchors ==
    { Anchor(T_ch1, BadHref), Anchor(T_next, BadHref), Anchor(T_all, BadHref),
      Anchor(T_ch1, Rel(1)), Anchor(T_next, Rel(1)) }

Sites == {"catalog", "landing", "chain"}

SeqsUpTo(S, n) == UNION {[1..k -> S] : k \in 0..n}

\* the elements a page of n anchors may have: none, or one div#list that
\* holds all anchors but the last one
Layouts(n) == {<<>>} \cup {<<Elem({"#list"}, TRUE, 1, k - 1)>> : k \in {n} \cap (1..n)}

PagesOver(anchors) ==
    UNION {{Doc(as, lay) : lay \in Layouts(Len(as))} : as \in SeqsUpTo(anchors, MaxAnchors)}

CatalogPages == PagesOver(CatalogAnchors)
LandingPages == PagesOver(LandingAnchors)
BrokenPages == PagesOver(BrokenAnchors)

PagesAt(s, url) ==
    CASE s = "catalog" -> CatalogPages
      [] s = "landing" -> LandingPages
      [] s = "broken" -> BrokenPages
      [] OTHER -> PagesOver(ChainAnchors(url))

\* the same document with its texts decoded under the wrong encoding
Garble(doc) ==
    [doc EXCEPT !.anchors = [i \in DOMAIN doc.anchors |->
                                [doc.anchors[i] EXCEPT !.text = Mojibake]]]

\* what requests.get may do: raise; return an empty body; return a page
\* that is no valid GBK; return a GBK page (of at most MaxGbkAnchors
\* anchors) decoded wrongly
ResponsesOf(pages) ==
    {Response(TRUE, EmptyText, NotGbk), Response(FALSE, EmptyText, NotGbk)}
    \cup {Response(FALSE, d, NotGbk) : d \in pages}
    \cup {Response(FALSE, Garble(d), d) : d \in {p \in pages : Len(p.anchors) <= MaxGbkAnchors}}

CatalogResponses == ResponsesOf(CatalogPages)
LandingResponses == ResponsesOf(LandingPages)
BrokenResponses == ResponsesOf(BrokenPages)

Responses(s, url) ==
    IF url.scheme # "http" THEN {Response(TRUE, EmptyText, NotGbk)}
    ELSE CASE s = "catalog" -> CatalogResponses
           [] s = "landing" -> LandingResponses
           [] s = "broken" -> BrokenResponses
           [] OTHER -> ResponsesOf(PagesAt(s, url))

----------------------------------------------------------------------------
(* What a page carries, stated without the loops of the code.              *)

Min(S) == CHOOSE x \in S : \A y \in S : x <= y

\* k occurs in s
HasSub(s, k) == \E i \in 1..(Len(s) - Len(k) + 1) : SubSeq(s, i, i + Len(k) - 1) = k

IsMoreAnchor(a) ==
    /\ \E k \in {T_more, T_all, T_full} : HasSub(a.text, k)
    /\ a.href \notin {NoHref, EmptyHref, HashHref, JsHref}

\* the full-catalog link of the start page
RefMoreLink(doc, start) ==
    LET I == {i \in 1..Len(doc.anchors) : IsMoreAnchor(doc.anchors[i])}
    IN  IF I = {} THEN NoUrl ELSE urljoin(start, doc.anchors[Min(I)].href)

IsNextAnchor(a) == HasSub(a.text, T_next) /\ a.href \notin {NoHref, EmptyHref}

\* the next-page link of a page
RefNextPage(doc, url) ==
    LET I == {i \in 1..Len(doc.anchors) : IsNextAnchor(doc.anchors[i])}
    IN  IF I = {} THEN NoUrl ELSE urljoin(url, doc.anchors[Min(I)].href)

IsAccepted(a) ==
    /\ Strip(a.text) # <<>>
    /\ a.href \notin {NoHref, EmptyHref}
    /\ is_chapter_link(Strip(a.text), a.href)

\* the accepted anchors of a page, in document order, each with its trimmed
\* text and its href resolved against the URL of the page
RefOffered(doc, url) ==
    LET acc == SelectSeq(TargetLinks(doc), IsAccepted)
    IN  [i \in 1..Len(acc) |-> Chapter(Strip(acc[i].text), urljoin(url, acc[i].href))]

\* the href of the first anchor with 下一页, resolved against the URL of the
\* page; an href that is missing or empty resolves to that URL
RefFirstNext(doc, url) ==
    LET I == {i \in 1..Len(doc.anchors) : HasSub(doc.anchors[i].text, T_next)}
        h == doc.anchors[Min(I)].href
    IN  IF I = {} THEN NoUrl
        ELSE IF h \in {NoHref, EmptyHref} THEN url
        ELSE urljoin(url, h)

\* where the page has an anchor with 下一页 and an href
RefNavWhere(doc) ==
    LET HasNext(as) == \E k \in 1..Len(as) : IsNextAnchor(as[k])
        best == BestContainer(doc)[1]
    IN  IF ~HasNext(doc.anchors) THEN "absent"
        ELSE IF best = 0 THEN "page"
        ELSE IF HasNext(Links(doc, doc.elems[best])) THEN "inside"
        ELSE "outside"

----------------------------------------------------------------------------
(* parse_chapters *)

\* urls_to_visit[0] for urls_to_visit.pop(0): the queue keeps its head
Dequeue_peek(q) == q

\* urls_to_visit.pop(0): what is left of the queue
Dequeue(q) == Tail(q)

\* the URL is not recorded
MarkVisited_forget(visited, url) == visited

\* visited_urls.add(url)
MarkVisited(visited, url) == visited \cup {url}

\* urls_to_visit.insert(0, more_link) for the assignment: the start URL
\* stays in the queue
RedirectQueue_insert(q, more) == <<more>> \o q

\* line 84: urls_to_visit = [more_link]
RedirectQueue(q, more) == <<more>>

\* the URL is appended without the test of visited_urls
Enqueue_unseen(q, next, visited) == IF next # NoUrl THEN Append(q, next) ELSE q

\* lines 156-157
Enqueue(q, next, visited) ==
    IF next # NoUrl /\ next \notin visited THEN Append(q, next) ELSE q

FetchEv(by, url, ok) == [op |-> "fetch", by |-> by, url |-> url, ok |-> ok]
SleepEv(url) == [op |-> "sleep", by |-> "walk", url |-> url, ok |-> TRUE]

\* the delay left out
time_sleep_none(calls_made, url) == calls_made

\* line 160: time.sleep(0.5)
time_sleep(calls_made, url) == Append(calls_made, SleepEv(url))

ClsIdle == text = <<>> /\ ntok = 0 /\ verdict = "pending"
DrvIdle == argv = <<>> /\ main_pc = "none" /\ stdout = <<>> /\ exit_code = 0 /\ calls = 0
CrawlIdle ==
    /\ site = "catalog" /\ start_url = Url(0, 0) /\ pc = "idle"
    /\ all_chapters = <<>> /\ visited_urls = {} /\ urls_to_visit = <<>>
    /\ page_count = 0 /\ current_url = NoUrl /\ more_link = NoUrl
    /\ result = <<>> /\ log = <<>> /\ offered = <<>> /\ more_ref = NoUrl
    /\ next_ref = NoUrl /\ unbroken = TRUE
    /\ nav_where = "absent" /\ walk_more = NoUrl /\ next_first = NoUrl
    /\ skipped = FALSE /\ observed = FALSE

SelIdle ==
    /\ soup = NoneHtml /\ sel_pc = "none" /\ best_container = 0
    /\ max_link_count = 0 /\ div_scanned = FALSE /\ target_links = <<>>

Called ==
    /\ site \in Sites
    /\ start_url = Url(0, 0)
    /\ pc = "detect"
    /\ all_chapters = <<>>
    /\ visited_urls = {}
    /\ urls_to_visit = <<start_url>>
    /\ page_count = 0
    /\ current_url = NoUrl
    /\ more_link = NoUrl
    /\ result = <<>>
    /\ log = <<>>
    /\ offered = <<>>
    /\ more_ref = NoUrl
    /\ next_ref = NoUrl
    /\ unbroken = TRUE
    /\ nav_where = "absent"
    /\ walk_more = NoUrl
    /\ next_first = NoUrl
    /\ skipped = FALSE
    /\ ClsIdle
    /\ DrvIdle
    /\ SelIdle

Init == Called /\ observed = FALSE

\* the same call, with the links of every page recorded
ObservedInit == Called /\ observed = TRUE

\* lines 66-85: the fetch of the start page and the full-catalog redirect
Detect ==
    /\ pc = "detect"
    /\ \E resp \in Responses(site, start_url) :
         LET first_html == fetch_url(resp)
             found == FindMoreLink(first_html.anchors, 1, start_url)
         IN  /\ log' = Append(log, FetchEv("detect", start_url, first_html.kind = "html"))
             /\ IF first_html = Raised
                THEN /\ pc' = "raised"
                     /\ UNCHANGED <<result, more_link, more_ref, urls_to_visit, visited_urls>>
                ELSE IF Falsy(first_html)
                THEN /\ pc' = "done"
                     /\ result' = <<>>
                     /\ UNCHANGED <<more_link, more_ref, urls_to_visit, visited_urls>>
                ELSE IF found = RaisedUrl
                THEN /\ pc' = "raised"
                     /\ UNCHANGED <<result, more_link, more_ref, urls_to_visit, visited_urls>>
                ELSE /\ pc' = "walk"
                     /\ more_link' = found
                     /\ more_ref' = RefMoreLink(first_html, start_url)
                     /\ IF found # NoUrl /\ found # start_url
                        THEN /\ urls_to_visit' = RedirectQueue(urls_to_visit, found)
                             /\ visited_urls' = MarkVisited(visited_urls, start_url)
                        ELSE UNCHANGED <<urls_to_visit, visited_urls>>
                     /\ UNCHANGED result
    /\ UNCHANGED <<site, start_url, all_chapters, page_count, current_url,
                   offered, next_ref, unbroken, nav_where, walk_more, next_first, skipped, observed,
                   clsVars, drvVars, selVars>>

\* page_count <= max_pages for page_count < max_pages
LoopCondition_le == urls_to_visit # <<>> /\ page_count <= max_pages

\* line 87: the test of the walk loop
LoopCondition == urls_to_visit # <<>> /\ page_count < max_pages

\* lines 87-160: one iteration of the walk loop
Walk ==
    /\ pc = "walk"
    /\ LoopCondition
    /\ current_url' = Head(urls_to_visit)
    /\ IF current_url' \in visited_urls
       THEN /\ urls_to_visit' = Dequeue(urls_to_visit)
            /\ skipped' = TRUE
            /\ UNCHANGED <<pc, visited_urls, page_count, all_chapters, log, offered,
                           next_ref, unbroken, nav_where, walk_more, next_first>>
       ELSE /\ UNCHANGED skipped
            /\ visited_urls' = MarkVisited(visited_urls, current_url')
            /\ page_count' = page_count + 1
            /\ \E resp \in Responses(site, current_url') :
                 LET html == fetch_url(resp)
                     links == TargetLinks(html)
                     page_chapters == PageChapters(links, current_url', start_url, all_chapters)
                     next_page_url == FindNextPage(html.anchors, 1, current_url')
                     fetched == Append(log, FetchEv("walk", current_url', html.kind = "html"))
                     \* where an exception leaves the iteration: line 136, line 153
                     raisesAt ==
                         IF ExtractRaises(links, current_url') THEN "extract"
                         ELSE IF next_page_url = RaisedUrl THEN "next"
                         ELSE "no"
                 IN  IF html = Raised \/ Falsy(html)
                     THEN /\ pc' = IF html = Raised THEN "raised" ELSE pc
                          /\ urls_to_visit' = Dequeue(urls_to_visit)
                          /\ log' = fetched
                          /\ offered' = <<>>
                          /\ next_ref' = NoUrl
                          /\ unbroken' = FALSE
                          /\ nav_where' = "absent"
                          /\ walk_more' = NoUrl
                          /\ next_first' = NoUrl
                          /\ UNCHANGED all_chapters
                     ELSE /\ all_chapters' = IF raisesAt = "extract" THEN all_chapters
                                              ELSE all_chapters \o page_chapters
                          /\ urls_to_visit' =
                               IF raisesAt # "no" THEN Dequeue(urls_to_visit)
                               ELSE Enqueue(Dequeue(urls_to_visit), next_page_url,
                                            visited_urls')
                          /\ log' = IF raisesAt # "no" THEN fetched
                                     ELSE time_sleep(fetched, current_url')
                          /\ offered' = RefOffered(html, current_url')
                          /\ next_ref' = RefNextPage(html, current_url')
                          /\ unbroken' = (unbroken /\ next_ref' \notin visited_urls' \cup {NoUrl})
                          /\ nav_where' = IF observed THEN RefNavWhere(html) ELSE "absent"
                          /\ walk_more' = IF observed THEN RefMoreLink(html, current_url')
                                          ELSE NoUrl
                          /\ next_first' = IF observed THEN RefFirstNext(html, current_url')
                                           ELSE NoUrl
                          /\ pc' = IF raisesAt # "no" THEN "raised" ELSE pc
    /\ UNCHANGED <<site, start_url, more_link, result, more_ref, observed, clsVars,
                   drvVars, selVars>>

\* line 162: the value returned
ReturnValue == all_chapters

Return ==
    /\ pc = "walk"
    /\ ~LoopCondition
    /\ pc' = "done"
    /\ result' = ReturnValue
    /\ UNCHANGED <<site, start_url, all_chapters, visited_urls, urls_to_visit,
                   page_count, current_url, more_link, log, offered, more_ref,
                   next_ref, unbroken, nav_where, walk_more, next_first, skipped, observed, clsVars,
                   drvVars, selVars>>

Next == Detect \/ Walk \/ Return

Spec == Init /\ [][Next]_vars

\* the interpreter runs the function to its end
FairSpec == Spec /\ WF_vars(Next)

ObservedSpec == ObservedInit /\ [][Next]_vars

----------------------------------------------------------------------------
(* The script (lines 164-174): the crawl of the URL given on the command   *)
(* line, its result printed as one JSON document.                          *)

\* json.dumps({"error": msg})
ErrorDoc(msg) == [kind |-> "error", error |-> msg, chapters |-> <<>>]
\* json.dumps(chapters, ensure_ascii=False)
ArrayDoc(chapters) == [kind |-> "array", error |-> "", chapters |-> chapters]

\* sys.argv, with the name of the script first
Argvs == {<<"crawler.py">>, <<"crawler.py", Url(0, 0)>>, <<"crawler.py", Url(0, 1), Url(1, 0)>>}

DriverSites == {"broken"}

\* line 165
MissingArg(av) == Len(av) < 2

\* the call of parse_chapters without try/except: the exception ends the
\* process with a traceback on stderr
Report_uncaught(out, outcome, chapters) ==
    IF outcome = "raised" THEN out ELSE Append(out, ArrayDoc(chapters))

\* lines 170-174: what the try statement prints
Report(out, outcome, chapters) ==
    IF outcome = "raised" THEN Append(out, ErrorDoc("Invalid IPv6 URL"))
    ELSE Append(out, ArrayDoc(chapters))

DriverInit ==
    /\ site \in DriverSites /\ start_url = NoUrl /\ pc = "idle"
    /\ all_chapters = <<>> /\ visited_urls = {} /\ urls_to_visit = <<>>
    /\ page_count = 0 /\ current_url = NoUrl /\ more_link = NoUrl
    /\ result = <<>> /\ log = <<>> /\ offered = <<>> /\ more_ref = NoUrl
    /\ next_ref = NoUrl /\ unbroken = TRUE
    /\ nav_where = "absent" /\ walk_more = NoUrl /\ next_first = NoUrl
    /\ skipped = FALSE /\ observed = FALSE
    /\ ClsIdle /\ SelIdle
    /\ argv \in Argvs /\ main_pc = "start" /\ stdout = <<>> /\ exit_code = 0
    /\ calls = 0

\* lines 165-171: the argument is missing, or parse_chapters is called
\* (lines 55-62)
Main ==
    /\ main_pc = "start"
    /\ IF MissingArg(argv)
       THEN /\ stdout' = Append(stdout, ErrorDoc("No URL provided"))
            /\ exit_code' = 1
            /\ main_pc' = "exited"
            /\ UNCHANGED <<calls, start_url, pc, urls_to_visit>>
       ELSE /\ main_pc' = "crawl"
            /\ calls' = calls + 1
            /\ start_url' = argv[2]
            /\ urls_to_visit' = <<start_url'>>
            /\ pc' = "detect"
            /\ UNCHANGED <<stdout, exit_code>>
    /\ UNCHANGED <<argv, site, all_chapters, visited_urls, page_count, current_url,
                   more_link, result, log, offered, more_ref, next_ref, unbroken,
                   nav_where, walk_more, next_first, skipped, observed, clsVars, selVars>>

\* lines 172-174: the crawl returned or raised; the script ends
Emit ==
    /\ main_pc = "crawl"
    /\ pc \in {"done", "raised"}
    /\ stdout' = Report(stdout, pc, result)
    /\ main_pc' = "exited"
    /\ UNCHANGED <<argv, exit_code, calls, crawlVars, clsVars, selVars>>

DriverNext == Main \/ Detect \/ Walk \/ Return \/ Emit

DriverSpec == DriverInit /\ [][DriverNext]_vars

----------------------------------------------------------------------------
(* The choice of the container (lines 105-128) made on its own, on pages   *)
(* of MinDivLinks + 2 anchors whose elements hold none, one, 20, 21 or 22  *)
(* of them.                                                                *)

SelAnchorCount == MinDivLinks + 2
SelAnchors == [i \in 1..SelAnchorCount |-> Anchor(T_ch1, Rel(i))]
SelSizes == {0, 1, MinDivLinks, MinDivLinks + 1, MinDivLinks + 2}
SelSelectorSets == {{}, {"#list"}, {".list"}, {"#chapterlist"}}

\* a div, or an element of another tag that a selector matches
SelElems ==
    {e \in {Elem(k, d, f, f + n - 1) :
                k \in SelSelectorSets, d \in BOOLEAN, f \in {1, 2}, n \in SelSizes} :
        /\ e.div \/ e.sels # {}
        /\ e.last <= SelAnchorCount
        /\ e.last < e.first => e.first = 1}

SelectInit ==
    /\ CrawlIdle /\ ClsIdle /\ DrvIdle
    /\ soup = Doc(SelAnchors, <<>>) /\ sel_pc = "build" /\ best_container = 0
    /\ max_link_count = 0 /\ div_scanned = FALSE /\ target_links = <<>>

\* the author of the page writes one more element
AddElement ==
    /\ sel_pc = "build" /\ Len(soup.elems) < MaxElems
    /\ \E e \in SelElems : soup' = [soup EXCEPT !.elems = Append(@, e)]
    /\ UNCHANGED <<sel_pc, best_container, max_link_count, div_scanned, target_links,
                   crawlVars, clsVars, drvVars>>

\* lines 105-128
Select ==
    /\ sel_pc = "build"
    /\ sel_pc' = "selected"
    /\ best_container' = BestContainer(soup)[1]
    /\ max_link_count' = BestContainer(soup)[2]
    /\ div_scanned' = DivScanRuns(soup)
    /\ target_links' = TargetLinks(soup)
    /\ UNCHANGED <<soup, crawlVars, clsVars, drvVars>>

SelectNext == AddElement \/ Select

SelectSpec == SelectInit /\ [][SelectNext]_vars

----------------------------------------------------------------------------
(* is_chapter_link called on its own, on texts composed of pieces: every   *)
(* exclusion keyword, and the characters the three patterns look at.       *)

Pieces ==
    {exclude_keywords[k] : k \in 1..Len(exclude_keywords)}
    \cup {T_ch1, <<"di4">>, <<"1">>, <<"FW1">>, <<"yi">>, <<"zhang">>, <<"hui">>,
          <<".">>, <<" ">>, <<"\n">>, <<"dun">>, <<"x">>}

ClassifyHrefs == {NoHref, JsHref, Rel(1)}

BoolStr(b) == IF b THEN "True" ELSE "False"

ClassifyInit == CrawlIdle /\ ClsIdle /\ DrvIdle /\ SelIdle

\* the caller builds the text
Compose ==
    /\ verdict = "pending" /\ ntok < MaxPieces
    /\ \E p \in Pieces : text' = text \o p
    /\ ntok' = ntok + 1
    /\ UNCHANGED <<verdict, crawlVars, drvVars, selVars>>

\* lines 37-53
Classify ==
    /\ verdict = "pending"
    /\ \E href \in ClassifyHrefs : verdict' = BoolStr(is_chapter_link(text, href))
    /\ UNCHANGED <<text, ntok, crawlVars, drvVars, selVars>>

ClassifyNext == Compose \/ Classify

ClassifySpec == ClassifyInit /\ [][ClassifyNext]_vars

----------------------------------------------------------------------------
(* Properties. *)

\* the positions in the log of the fetches made by the detection / the walk
Fetches(by) == {i \in 1..Len(log) : log[i].op = "fetch" /\ log[i].by = by}
WalkFetches == Fetches("walk")
AllFetches == Fetches("detect") \cup WalkFetches
\* the detection fetch was made and returned a page
DetectOk == Len(log) >= 1 /\ log[1].ok
\* the start page carried a full-catalog link to another URL
Redirected == more_ref \notin {NoUrl, start_url}
\* the first fetch of the walk was made and failed
SeedFetchFailed == WalkFetches # {} /\ ~log[Min(WalkFetches)].ok
\* the last call made was a fetch of the walk that failed
LastFetchFailed == Len(log) >= 1 /\ log[Len(log)].op = "fetch" /\ ~log[Len(log)].ok
                   /\ log[Len(log)].by = "walk"

DistinctUrls(chapters) ==
    \A i, j \in 1..Len(chapters) : i # j => chapters[i].url # chapters[j].url

\* C1: at every moment of a crawl no two entries of all_chapters have the
\* same url, and neither have two entries of the sequence returned.
C1_DistinctUrls == DistinctUrls(all_chapters) /\ DistinctUrls(result)

\* a page repeated the url of one of its own anchors under another title
C1_Witness ==
    /\ pc = "done" /\ Len(result) >= 1
    /\ \E i, j \in 1..Len(offered) :
         i < j /\ offered[i].url = offered[j].url /\ offered[i].title # offered[j].title

\* C2: the walk never visits more than 50 pages, and a crawl in which every
\* fetch returned a page with a next-page link to a URL not yet visited ends
\* after exactly 50 page visits.
C2_PageCap ==
    /\ Cardinality(WalkFetches) <= 50
    /\ page_count = Cardinality(WalkFetches)
    /\ (pc = "done" /\ DetectOk /\ unbroken) => Cardinality(WalkFetches) = 50

C2_Witness == pc = "done" /\ DetectOk /\ unbroken /\ page_count = 50 /\ urls_to_visit # <<>>

\* C3, as claimed: no URL is fetched twice, by the detection and the walk
\* together, and visited_urls is the set of the URLs fetched so far.
C3_NeverFetchedTwice ==
    /\ \A i, j \in AllFetches : i # j => log[i].url # log[j].url
    /\ visited_urls = {log[i].url : i \in AllFetches}

\* C3, amended: the walk fetches no URL twice; a URL is fetched twice only
\* if it is the start URL, fetched by the detection and then, when no
\* redirect is taken, by the walk; visited_urls is the set of the URLs the
\* walk fetched, with the start URL once a redirect was taken.
C3_WalkFetchesOnce ==
    /\ \A i, j \in WalkFetches : i # j => log[i].url # log[j].url
    /\ \A i \in WalkFetches : \A j \in Fetches("detect") :
         log[i].url = log[j].url =>
            log[i].url = start_url /\ more_link \in {NoUrl, start_url}
    /\ visited_urls = {log[i].url : i \in WalkFetches}
                      \cup (IF more_link \in {NoUrl, start_url} THEN {} ELSE {start_url})

\* the start page was fetched by the detection and again by the walk, and a
\* later page linked back to it
C3_Witness ==
    /\ \E i \in WalkFetches : log[i].url = start_url
    /\ Cardinality(WalkFetches) >= 2
    /\ next_ref = start_url

\* C4: when the start page carries a full-catalog link (the first anchor
\* with one of the three phrases and an href that is present, not '#' and
\* not javascript) to another URL, the walk starts at that URL, the start
\* URL is in visited_urls from then on and the walk never fetches the start
\* page; otherwise the walk starts at the start URL.
C4_Redirect ==
    DetectOk =>
        /\ pc # "detect"
        /\ LET seed == IF Redirected THEN more_ref ELSE start_url
           IN  /\ WalkFetches = {} => (urls_to_visit = <<seed>> /\ page_count = 0)
               /\ WalkFetches # {} => log[Min(WalkFetches)].url = seed
        /\ Redirected =>
              /\ start_url \in visited_urls
              /\ \A i \in WalkFetches : log[i].url # start_url
              /\ start_url \notin {urls_to_visit[k] : k \in 1..Len(urls_to_visit)}

\* the redirect was taken and a page of the walk links back to the start page
C4_Witness ==
    /\ Redirected /\ next_ref = start_url /\ pc = "done"
    /\ Len(result) >= 1

RECURSIVE KeepNew(_, _, _)
KeepNew(prev, cand, i) ==
    IF i > Len(cand) THEN <<>>
    ELSE LET rest == KeepNew(prev, cand, i + 1)
             dup == \/ \E k \in 1..Len(prev) : prev[k].url = cand[i].url
                    \/ \E k \in 1..(i - 1) : cand[k].url = cand[i].url
         IN  IF dup THEN rest ELSE <<cand[i]>> \o rest

\* C6: every iteration of the walk appends to all_chapters the accepted
\* anchors of its page (trimmed text, href resolved against the URL of the
\* page), in document order, without those whose url is already there or
\* earlier on the page; all_chapters changes in no other way, and it is
\* what a crawl returns.
C6_AppendsNewInOrder ==
    /\ [][/\ pc = "walk" /\ pc' = "walk" =>
               all_chapters' = all_chapters \o KeepNew(all_chapters, offered', 1)
          /\ ~(pc = "walk" /\ pc' = "walk") => all_chapters' = all_chapters]_vars
    /\ [](pc = "done" /\ DetectOk => result = all_chapters)

\* a page in the other directory offered a chapter already taken from an
\* earlier page, and one resolved against its own URL
C6_Witness ==
    /\ pc = "walk" /\ current_url.dir = 1
    /\ \E i \in 1..Len(offered) :
         /\ offered[i].url.dir = 1
         /\ \E k \in 1..Len(all_chapters) : all_chapters[k] = offered[i]
    /\ \E i \in 1..Len(offered) : \E k \in 1..Len(all_chapters) :
         all_chapters[k].url = offered[i].url /\ all_chapters[k].title # offered[i].title

\* C7: when the detection fetch of the start URL fails, the crawl returns
\* the empty sequence without another fetch; when the first fetch of the
\* walk fails, the crawl returns the empty sequence; no exception is raised.
C7_SeedFailure ==
    /\ pc # "raised"
    /\ (Len(log) >= 1 /\ ~log[1].ok) => (pc = "done" /\ result = <<>> /\ Len(log) = 1)
    /\ SeedFetchFailed =>
          /\ all_chapters = <<>> /\ urls_to_visit = <<>>
          /\ pc = "done" => result = <<>>

\* the full-catalog page the walk was seeded with could not be fetched
C7_Witness == pc = "done" /\ SeedFetchFailed /\ Redirected /\ result = <<>>

\* C8: an iteration of the walk whose fetch fails leaves all_chapters as it
\* is, takes the URL off the queue and stays in the loop; the crawl then
\* returns all_chapters.
C8_FailureSkips ==
    /\ [][(pc = "walk" /\ LastFetchFailed' /\ log' # log) =>
             /\ all_chapters' = all_chapters
             /\ urls_to_visit' = Tail(urls_to_visit)
             /\ pc' = "walk"]_vars
    /\ []((pc = "done" /\ DetectOk) => result = all_chapters)
    /\ [](LastFetchFailed => pc \in {"walk", "done"})

\* the crawl returned the chapters found before a fetch failed
C8_Witness == pc = "done" /\ LastFetchFailed /\ Len(result) >= 2

----------------------------------------------------------------------------
(* Properties of is_chapter_link. *)

ExclusionKeywords ==
    { <<"shou", "ye">>, <<"deng", "lu">>, <<"zhu", "ce">>, <<"shang", "yi", "ye">>,
      <<"xia", "yi", "ye">>, <<"fan", "hui">>, <<"jia1", "ru", "shu", "jia4">>,
      <<"tou", "piao">>, <<"liu2", "yan">>, <<"xia", "zai">>, <<"geng", "duo">>,
      <<"zhi", "da">>, <<"di3", "bu">> }

HasKeyword(s) == \E k \in ExclusionKeywords : HasSub(s, k)

\* the decimal digits: 0-9 and those of the other scripts (FW1)
DecimalDigits == {"0", "1", "2", "3", "4", "5", "6", "7", "8", "9", "FW1"}
\* [0-9一二三四五六七八九十百千]
Numerals == {"0", "1", "2", "3", "4", "5", "6", "7", "8", "9", "yi", "er", "san",
             "si", "wu", "liu4", "qi", "ba", "jiu", "shi", "bai", "qian"}

\* 第, then one or more of [0-9一二三四五六七八九十百千], then 章, 回 or 节
HasMarker(s) ==
    \E i, j \in 1..Len(s) :
        /\ i + 1 < j
        /\ s[i] = "di4"
        /\ \A k \in (i + 1)..(j - 1) : s[k] \in Numerals
        /\ s[j] \in {"zhang", "hui", "jie"}

\* one or more digits at the start, then '.', whitespace or '、'
HasDigitPrefix(s) ==
    \E n \in 1..(Len(s) - 1) :
        /\ \A k \in 1..n : s[k] \in DecimalDigits
        /\ s[n + 1] \in {".", " ", "\n", "\t", "dun"}

OnlyDigits(s) == Len(s) >= 1 /\ \A k \in 1..Len(s) : s[k] \in DecimalDigits

\* C9: a text that contains an exclusion keyword is rejected, whatever else
\* it matches.
C9_ExclusionWins == (verdict # "pending" /\ HasKeyword(text)) => verdict = "False"

\* 下一页 第1章
C9_Witness == verdict = "False" /\ text = <<"xia", "yi", "ye", " ", "di4", "1", "zhang">>

\* C10: a text without exclusion keyword is accepted exactly if it has a
\* chapter marker, a digit prefix, only digits, or more than 2 characters,
\* whatever the href.
C10_Inclusion ==
    (verdict # "pending" /\ ~HasKeyword(text)) =>
        verdict = BoolStr(HasMarker(text) \/ HasDigitPrefix(text) \/ OnlyDigits(text)
                          \/ Len(text) > 2)

\* a text of two characters, one of them a digit, is rejected
C10_Witness ==
    /\ verdict = "False" /\ Len(text) = 2 /\ ~HasKeyword(text)
    /\ \E k \in 1..2 : text[k] \in DecimalDigits

----------------------------------------------------------------------------
(* Properties of the entries returned. *)

\* C11: every entry of all_chapters, and of the sequence returned, has a
\* title that is trimmed, non-empty and free of exclusion keywords (so 下一页
\* is never a title), and every entry was appended from an anchor of the
\* page being processed that has a non-empty trimmed text, a non-empty
\* href, and that is_chapter_link accepted.
C11_FromAcceptedAnchors ==
    /\ [](\A c \in {all_chapters[k] : k \in 1..Len(all_chapters)}
                 \cup {result[k] : k \in 1..Len(result)} :
            /\ c.title # <<>> /\ c.title = Strip(c.title)
            /\ ~HasKeyword(c.title))
    /\ [][\A k \in (Len(all_chapters) + 1)..Len(all_chapters') :
            \E i \in 1..Len(offered') : offered'[i] = all_chapters'[k]]_vars

\* a page had its next-page link inside the container selected, and the
\* crawl returned chapters
C11_Witness == pc = "done" /\ nav_where = "inside" /\ Len(result) >= 1

----------------------------------------------------------------------------
(* Properties of the script. *)

\* C12: a run of the script prints exactly one document.  Without a URL
\* argument it prints {"error": "No URL provided"}, exits with a non-zero
\* code and starts no crawl.  With a URL it calls parse_chapters once and
\* prints the array returned or, when the crawl raised, an error object in
\* its place, and the exit code is zero.
C12_OneDocument ==
    /\ Len(stdout) <= 1 /\ calls <= 1
    /\ main_pc # "exited" => stdout = <<>>
    /\ main_pc = "exited" =>
          /\ Len(stdout) = 1
          /\ IF Len(argv) < 2
             THEN /\ stdout[1] = [kind |-> "error", error |-> "No URL provided",
                                  chapters |-> <<>>]
                  /\ exit_code # 0
                  /\ calls = 0 /\ log = <<>> /\ pc = "idle"
             ELSE /\ calls = 1 /\ exit_code = 0
                  /\ pc \in {"done", "raised"}
                  /\ pc = "done" =>
                        stdout[1] = [kind |-> "array", error |-> "", chapters |-> result]
                  /\ pc = "raised" => stdout[1].kind = "error"

\* the crawl raised on its second page, after it had found a chapter
C12_Witness ==
    /\ main_pc = "exited" /\ pc = "raised"
    /\ Len(all_chapters) >= 1 /\ page_count >= 2

----------------------------------------------------------------------------
(* Properties of the choice of the container. *)

ListedSelectors == <<"#list", ".list", ".catalog", ".chapter-list", ".book_list",
                     ".directory", ".box_con", "#chapterlist">>

\* the elements of the page that a listed selector matches
Matched(doc) ==
    {j \in 1..Len(doc.elems) :
        \E s \in 1..Len(ListedSelectors) : ListedSelectors[s] \in doc.elems[j].sels}
\* the number of descendant anchors of element j, and these anchors
AnchorCount(doc, j) == doc.elems[j].last - doc.elems[j].first + 1
AnchorsOf(doc, j) ==
    [i \in 1..AnchorCount(doc, j) |-> doc.anchors[doc.elems[j].first + i - 1]]
\* the position in the list of the first selector that matches element j
FirstSelector(doc, j) ==
    Min({s \in 1..Len(ListedSelectors) : ListedSelectors[s] \in doc.elems[j].sels})
\* element j is met before element k: selector-list order, then document order
MetBefore(doc, j, k) ==
    \/ FirstSelector(doc, j) < FirstSelector(doc, k)
    \/ FirstSelector(doc, j) = FirstSelector(doc, k) /\ j < k

\* C13, as claimed: when an element of the page matches a listed selector,
\* the divs are not scanned and the anchor pool is the anchor set of an
\* element that a selector matches; the divs are scanned only when no
\* selector matches any element.
C13_SelectorsPrecede ==
    sel_pc = "selected" =>
        /\ Matched(soup) # {} =>
              /\ ~div_scanned
              /\ best_container \in Matched(soup)
              /\ target_links = AnchorsOf(soup, best_container)
        /\ div_scanned => Matched(soup) = {}

C15_DivThreshold ==
    (sel_pc = "selected" /\ div_scanned) =>
        LET big == {j \in 1..Len(soup.elems) :
                       soup.elems[j].div /\ AnchorCount(soup, j) > 20}
        IN  IF big = {}
            THEN best_container = 0 /\ target_links = soup.anchors
            ELSE /\ best_container \in big
                 /\ target_links = AnchorsOf(soup, best_container)
                 /\ \A j \in big : AnchorCount(soup, j) <= AnchorCount(soup, best_container)

\* the only div of the page has exactly 20 anchors: the pool is the page
C15_Witness ==
    /\ sel_pc = "selected" /\ div_scanned /\ best_container = 0
    /\ \E j \in 1..Len(soup.elems) : soup.elems[j].div /\ AnchorCount(soup, j) = 20
    /\ Len(target_links) > 20

----------------------------------------------------------------------------
(* Properties of the frontier. *)

\* a step of the walk that fetched a page and processed it
Processed == pc = "walk" /\ log' # log /\ log'[Len(log')].op = "sleep"
\* the URLs in a queue
InQueue(q) == {q[k] : k \in 1..Len(q)}

\* C16, as claimed: processing a page appends at most one URL to the back
\* of the queue, the href of the first anchor of the whole page whose text
\* contains 下一页, resolved against the URL of the page, and only if it is
\* not in visited_urls; nothing is appended when no anchor contains 下一页.
C16_FirstNextAnchor ==
    [][Processed =>
         urls_to_visit' =
             IF next_first' # NoUrl /\ next_first' \notin visited_urls'
             THEN Append(Tail(urls_to_visit), next_first')
             ELSE Tail(urls_to_visit)]_vars

\* C16, amended: the URL is the href of the first anchor of the whole page
\* whose text contains 下一页 and whose href is present and not empty;
\* nothing is appended when the page has no such anchor.
C16_FirstNextWithHref ==
    [][Processed =>
         urls_to_visit' =
             IF next_ref' # NoUrl /\ next_ref' \notin visited_urls'
             THEN Append(Tail(urls_to_visit), next_ref')
             ELSE Tail(urls_to_visit)]_vars

\* the first anchor with 下一页 had no href, a later one outside the
\* container selected had one, and its URL is in the queue
C16_Witness ==
    /\ pc = "walk" /\ next_ref # NoUrl /\ next_first # next_ref
    /\ nav_where = "outside" /\ urls_to_visit = <<next_ref>>

\* C17: the detection fetch is the first call of the crawl and the only
\* fetch of the detection; after it more_link does not change, and the
\* only URL a step of the walk adds to the queue is the next-page link of
\* the page it processed, whatever full-catalog link that page carries.
C17_DetectionOnce ==
    /\ [](Fetches("detect") \subseteq {1})
    /\ [][pc = "walk" =>
             /\ more_link' = more_link
             /\ InQueue(urls_to_visit') \ InQueue(urls_to_visit) \subseteq {next_ref'}
             /\ Len(urls_to_visit') <= Len(urls_to_visit)]_vars

\* the page the crawl was redirected to carried a full-catalog link to a
\* URL not visited, and the crawl ended without fetching it
C17_Witness ==
    /\ pc = "done" /\ Redirected /\ page_count = 1
    /\ walk_more \notin visited_urls \cup {NoUrl}

\* C18: a step of the walk that processes a page ends with the delay, and
\* between two fetches of the walk there is a delay.
C18_DelayBetweenFetches ==
    /\ [](\A i, j \in WalkFetches :
            i < j => \E k \in (i + 1)..(j - 1) : log[k].op = "sleep")
    /\ [][(pc = "walk" /\ log' # log /\ log'[Len(log')].ok) =>
            log'[Len(log')] = [op |-> "sleep", by |-> "walk", url |-> current_url',
                               ok |-> TRUE]]_vars

\* two pages were processed and the fetch of a third failed
C18_Witness ==
    /\ LastFetchFailed /\ Cardinality(WalkFetches) = 3
    /\ Cardinality({k \in 1..Len(log) : log[k].op = "sleep"}) = 2

\* C19: during the walk the queue holds at most one URL, and that URL is
\* not in visited_urls; the branch of line 90 is never taken; page_count is
\* the number of fetches made by the walk.
C19_QueueAtMostOne ==
    /\ pc = "walk" =>
          /\ Len(urls_to_visit) <= 1
          /\ InQueue(urls_to_visit) \cap visited_urls = {}
    /\ ~skipped
    /\ page_count = Cardinality(WalkFetches)

\* the page last processed linked back to a page visited, and the queue
\* is empty
C19_Witness ==
    /\ pc = "walk" /\ page_count >= 2 /\ next_ref \in visited_urls
    /\ next_ref # current_url /\ urls_to_visit = <<>>

\* C20: a fetch of the walk that failed is the last fetch of the crawl;
\* after it the queue is empty, and the crawl returns the chapters it had.
C20_FailureIsLast ==
    /\ \A i \in WalkFetches : ~log[i].ok => \A j \in AllFetches : j <= i
    /\ (\E i \in WalkFetches : ~log[i].ok) =>
          /\ urls_to_visit = <<>>
          /\ pc \in {"walk", "done"}
          /\ pc = "done" => result = all_chapters

\* the fetch of the third page failed and the chapters of the first two
\* were returned
C20_Witness ==
    /\ pc = "done" /\ LastFetchFailed /\ page_count = 3
    /\ Len(result) >= 1 /\ Len(log) = 6

====
